---- MODULE Spec2Model ----
(***************************************************************************)
(* Execution scheduler of the multi-agent research application (App):      *)
(* handleStartExecution, its inner processQueue / updateStatus, the user's  *)
(* toggleTaskPriority, and the session operations around a run              *)
(* (handleSearch, startNewResearch, switchToThread, deleteThread), over the *)
(* task list held in tasksRef.current and mirrored in activeTasks; the      *)
(* functions of the service (planResearch, extractSources, the sources of   *)
(* synthesizeReport); and the handlers of the task editor                   *)
(* (handleUpdateTask, handleAddTask, handleDeleteTask).                     *)
(*                                                                         *)
(* One step of the model is one JavaScript macrotask: a handler runs from   *)
(* the event that starts it (a click, a timer, the resolution of a backend  *)
(* call) up to the point where every continuation is waiting for a timer    *)
(* or for the backend.                                                      *)
(*                                                                         *)
(* Every call of handleSearch starts a run; what belongs to one call of     *)
(* handleStartExecution (its result Map, its closure, its pending timers    *)
(* and promises) is indexed by the run, what belongs to the component       *)
(* (tasksRef, the React state) is not.                                      *)
(***************************************************************************)
EXTENDS Integers, Sequences, FiniteSets, TLC

\* ---------------------------------------------------------------- bounds
MaxTasks == 3       \* longest task list the planner hands over
MaxEdges == 2       \* dependency ids in the whole list, all tasks together
MaxToggles == 1     \* priority clicks of the user
MaxFailures == 1    \* executor calls of one run that end in the catch block
MaxRuns == 2        \* searches of one session
MaxSessionTasks == 2  \* tasks planned in a session, all its searches together
MaxSessionEdges == 1  \* dependency ids in one list of a session
MaxClicks == 1      \* sidebar clicks (new research, a thread, its delete button)
MaxChunks == 3      \* grounding chunks of one backend response
MaxResults == 2     \* agent results handed to synthesizeReport in one call
MaxSources == 2     \* sources of one such result
MaxCustomTasks == 1 \* tasks added by handleAddTask and present at a time
MaxCalls == 1       \* calls of the service functions in one behaviour

\* ------------------------------------------------------ program constants
MAX_CONCURRENCY == 2

\* --------------------------------------------------------------- domains
\* The i-th task of the planner's list carries id i (ids are only compared
\* for equality).  UnknownId names no task of any list.
UnknownId == MaxTasks + 1
TaskIds == 1..MaxTasks
DepIds == 1..UnknownId
Runs == 1..MaxRuns

\* The id 'task-fallback' of the task planResearch returns from its catch
\* block, and the ids an executor call can carry.
FALLBACK_ID == UnknownId + 1
LaunchIds == TaskIds \cup {FALLBACK_ID}

\* The ids `task-custom-${Date.now()}` of the tasks handleAddTask creates.
CustomIds == (FALLBACK_ID + 1)..(FALLBACK_ID + MaxCustomTasks)

\* What the user types.
Queries == {"q1", "q2"}

\* Outcomes of the backend call inside executeResearchTask: a response, or
\* an exception.
BackendOutcomes == {"response", "throws"}

FAILED_TEXT == "Failed to retrieve information for this task."
FOUND_SOURCES == <<"https://source">>

\* The placeholder handleStartExecution pairs with a task that has no entry
\* in the result Map.
MISSING_RESULT == [text |-> "Failed", sources |-> <<>>]

ERROR_MESSAGE ==
    "I encountered an error while executing the plan. Please try again."

\* executeResearchTask: the findings of the response, or the placeholder of
\* the catch block with its sources left in.
executeResearchTask_keepSources(outcome) ==
    IF outcome = "throws"
    THEN [text |-> FAILED_TEXT, sources |-> FOUND_SOURCES]
    ELSE [text |-> "findings", sources |-> FOUND_SOURCES]

\* executeResearchTask: the findings of the response, or the placeholder of
\* the catch block; the promise never rejects.
executeResearchTask(outcome) ==
    IF outcome = "throws"
    THEN [text |-> FAILED_TEXT, sources |-> <<>>]
    ELSE [text |-> "findings", sources |-> FOUND_SOURCES]

\* Dependency edges <<task, dependency id>> a list of n tasks can carry.
EdgeSets(n) ==
    {E \in SUBSET ((1..n) \X DepIds) : Cardinality(E) <= MaxEdges}

\* AgentTask as planResearch returns it and handleSearch initialises it.
NewTask(i, D) ==
    [id |-> i, agentRole |-> <<"role", i>>, title |-> <<"title", i>>,
     goal |-> <<"goal", i>>, status |-> "pending", priority |-> "normal",
     dependencies |-> D]

PlannedGraphs ==
    UNION {{[i \in 1..n |-> NewTask(i, {d \in DepIds : <<i, d>> \in E})]
            : E \in EdgeSets(n)} : n \in 0..MaxTasks}

\* The lists the planner hands over in a session.
SessionGraphs ==
    UNION {{[i \in 1..n |-> NewTask(i, {d \in DepIds : <<i, d>> \in E})]
            : E \in {F \in EdgeSets(n) : Cardinality(F) <= MaxSessionEdges}}
           : n \in 0..MaxSessionTasks}

\* What the planner call can end in: a JSON list of tasks, text that
\* JSON.parse or tasks.map rejects, or an exception of the backend call.
PlannerKinds == {"tasks", "malformed", "throws"}

\* What the model's JSON can carry beyond the schema's required fields: a
\* status, a priority, and tasks without a dependencies field.
RawDecorations ==
    [status : {"undefined", "completed"}, priority : {"undefined", "high"},
     dependencies : {"always", "ifAny"}]

\* A task as JSON.parse yields it; its dependencies field is <<D>>, or <<>>
\* when the field is missing.
RawTask(t, dec) ==
    [t EXCEPT !.status = dec.status, !.priority = dec.priority,
              !.dependencies = IF dec.dependencies = "ifAny" /\ t.dependencies = {}
                               THEN <<>> ELSE <<t.dependencies>>]

\* Outcomes of the planner call for the lists of `graphs`.
RawOutcomes(graphs) ==
    {[kind |-> "tasks", tasks |-> [i \in DOMAIN g |-> RawTask(g[i], dec)]]
        : g \in graphs, dec \in RawDecorations}
    \cup {[kind |-> k, tasks |-> <<>>] : k \in PlannerKinds \ {"tasks"}}

\* The list of planResearch's catch block.
FALLBACK_TASKS ==
    <<[id |-> FALLBACK_ID, agentRole |-> <<"role", FALLBACK_ID>>,
       title |-> <<"title", FALLBACK_ID>>, goal |-> <<"goal", FALLBACK_ID>>,
       status |-> "pending", priority |-> "undefined", dependencies |-> {}]>>

\* The catch block rethrowing nothing and returning no task at all.
planResearch_emptyFallback(outcome) ==
    IF outcome.kind # "tasks"
    THEN <<>>
    ELSE [i \in DOMAIN outcome.tasks |->
             [outcome.tasks[i] EXCEPT
                 !.status = "pending",
                 !.dependencies = IF @ = <<>> THEN {} ELSE @[1]]]

\* The raw status kept: only the dependencies are normalised.
planResearch_rawStatus(outcome) ==
    IF outcome.kind # "tasks"
    THEN FALLBACK_TASKS
    ELSE [i \in DOMAIN outcome.tasks |->
             [outcome.tasks[i] EXCEPT
                 !.dependencies = IF @ = <<>> THEN {} ELSE @[1]]]

\* planResearch: tasks.map(t => ({...t, status: 'pending',
\* dependencies: t.dependencies || []})), or the fallback of the catch block.
planResearch(outcome) ==
    IF outcome.kind # "tasks"
    THEN FALLBACK_TASKS
    ELSE [i \in DOMAIN outcome.tasks |->
             [outcome.tasks[i] EXCEPT
                 !.status = "pending",
                 !.dependencies = IF @ = <<>> THEN {} ELSE @[1]]]

\* handleSearch: plannedTasks.map(t => ({...t, priority: 'normal'}))
initialTasks(plannedTasks) ==
    [i \in DOMAIN plannedTasks |-> [plannedTasks[i] EXCEPT !.priority = "normal"]]

\* Threads: the demo thread the application ships with, and the thread a
\* search creates when none is active.
NoThread == <<>>
DemoThread == <<"demo", 1>>
ThreadOfRun(r) == <<"thread", r>>
DemoMessages ==
    <<[role |-> "user", content |-> "Explain quantum computing basics"],
      [role |-> "model", content |-> "Quantum computing uses quantum mechanics"]>>
INITIAL_THREADS == (DemoThread :> DemoMessages)

UserMsg(q) == [role |-> "user", content |-> q]
ModelMsg == [role |-> "model", content |-> "answer"]
ErrorMsg == [role |-> "model", content |-> ERROR_MESSAGE]

\* No service function and no review handler has been called.
NoCall == [fn |-> "none", arg |-> <<>>, ret |-> <<>>]

\* No call of synthesizeReport yet.
NoSynthCall == [calls |-> 0, query |-> "", results |-> <<>>]

VARIABLES
    tasksRef,         \* tasksRef.current: the task list, in list order
    taskResultsMap,   \* run -> (id -> result), the Map of that run
    agentState,       \* AgentState shown by the UI
    hsePc,            \* run -> where its handleSearch / handleStartExecution
                      \* stands
    pqSpawned,        \* run -> processQueue invocations started by
                      \* completions and now asleep in their 50 ms delay
    inflight,         \* run -> (id -> unresolved executeResearchTask promises)
    contextOf,        \* run -> (id -> contextString its executor call got)
    completionOrder,  \* ids in the order their executor calls resolved,
                      \* since the latest search
    warned,           \* the "Potential Deadlock" warning was logged
    toggles,          \* toggleTaskPriority calls so far
    lastToggle,       \* id clicked if the latest step was a priority click,
                      \* 0 otherwise
    currentQueryString, \* React state of that name
    messages,         \* React state: the conversation shown
    activeThreadId,   \* React state
    threads,          \* React state: thread id -> its stored messages
    searches,         \* calls of handleSearch so far
    planned,          \* tasks planned so far
    clicks,           \* sidebar clicks so far
    searchQuery,      \* run -> the query its handleSearch was called with
    closureQuery,     \* run -> currentQueryString as the closure of its
                      \* handleStartExecution sees it
    synthCall,        \* run -> calls of synthesizeReport and their arguments
    activeTasks,      \* React state: the task list the UI renders
    listOwner,        \* run whose handleSearch stored the list of tasksRef,
                      \* 0 before the first
    lastCall          \* the latest call of a service function or of a
                      \* review handler: its name, argument and result

vars == <<tasksRef, taskResultsMap, agentState, hsePc, pqSpawned, inflight,
          contextOf, completionOrder, warned, toggles, lastToggle,
          currentQueryString, messages, activeThreadId, threads, searches,
          planned, clicks, searchQuery, closureQuery, synthCall,
          activeTasks, listOwner, lastCall>>

\* What only the session operations write.
sessionVars == <<currentQueryString, activeThreadId, searches, clicks,
                 searchQuery, closureQuery>>

\* ------------------------------------------------------------ list helpers
Range(s) == {s[i] : i \in DOMAIN s}

WithStatus(list, st) == SelectSeq(list, LAMBDA t : t.status = st)

IdsOf(list) == {list[i].id : i \in DOMAIN list}

\* updateStatus(id, status): list.map(t => t.id === id ? {...t, status} : t)
updateStatus(list, id, st) ==
    [i \in DOMAIN list |->
        IF list[i].id = id THEN [list[i] EXCEPT !.status = st] ELSE list[i]]

\* The status test left out: the priority flips whatever the status.
togglePriority_anyStatus(list, id) ==
    [i \in DOMAIN list |->
        IF list[i].id = id
        THEN [list[i] EXCEPT
                !.priority = IF list[i].priority = "high" THEN "normal" ELSE "high"]
        ELSE list[i]]

\* toggleTaskPriority's update(tasks)
togglePriority(list, id) ==
    [i \in DOMAIN list |->
        IF list[i].id = id /\ list[i].status = "pending"
        THEN [list[i] EXCEPT
                !.priority = IF list[i].priority = "high" THEN "normal" ELSE "high"]
        ELSE list[i]]

\* A fresh Map on every write: the earlier entries are lost.
storeResult_freshMap(results, id, result) == (id :> result)

\* The write left out: the Map stays as it was.
storeResult_dropped(results, id, result) == results

\* taskResultsMap.set(id, result)
storeResult(results, id, result) == (id :> result) @@ results

\* -------------------------------------------------------- processQueue body
\* The filter applied to every task that is not running, instead of the
\* pending tasks: a completed task counts as executable again.
executableTasks_notRunning(list) ==
    LET completed == WithStatus(list, "completed")
    IN  SelectSeq(list, LAMBDA t : /\ t.status # "running"
                                   /\ \A d \in t.dependencies : d \in IdsOf(completed))

\* The dependency filter left out: every pending task counts as executable.
executableTasks_ignoreDeps(list) == WithStatus(list, "pending")

\* The dependency filter written with some() instead of every().
executableTasks_someDep(list) ==
    LET completed == WithStatus(list, "completed")
    IN  SelectSeq(WithStatus(list, "pending"),
                  LAMBDA t : \/ t.dependencies = {}
                             \/ \E d \in t.dependencies : d \in IdsOf(completed))

\* Dependency ids that name no task of the list are skipped by the filter.
executableTasks_knownDepsOnly(list) ==
    LET completed == WithStatus(list, "completed")
    IN  SelectSeq(WithStatus(list, "pending"),
                  LAMBDA t : \A d \in t.dependencies :
                                d \in IdsOf(list) => d \in IdsOf(completed))

\* Only the first half of the filter: a task with dependencies is never
\* executable.
executableTasks_noDepsOnly(list) ==
    SelectSeq(WithStatus(list, "pending"), LAMBDA t : t.dependencies = {})

\* pending.filter(t => no dependencies, or every depId is in completed)
executableTasks(list) ==
    LET completed == WithStatus(list, "completed")
    IN  SelectSeq(WithStatus(list, "pending"),
                  LAMBDA t : \A d \in t.dependencies : d \in IdsOf(completed))

\* The priority lookup left out: always the first executable task.
nextTask_firstOnly(exec) == exec[1]

\* executableTasks.find(t => t.priority === 'high') || executableTasks[0]
nextTask(exec) ==
    LET highs == SelectSeq(exec, LAMBDA t : t.priority = "high")
    IN  IF Len(highs) > 0 THEN highs[1] ELSE exec[1]

\* One block of the context string: role, title, goal and findings text.
contextBlock(t, results) ==
    [agentRole |-> t.agentRole, title |-> t.title, goal |-> t.goal,
     findings |-> IF t.id \in DOMAIN results THEN results[t.id].text
                  ELSE "No info"]

\* The context built from the running tasks as well as the completed ones.
contextString_withRunning(list, results) ==
    LET shown == SelectSeq(list, LAMBDA t : t.status \in {"completed", "running"})
    IN  [i \in DOMAIN shown |-> contextBlock(shown[i], results)]

\* The context built newest-first: the blocks in reverse list order.
contextString_reversed(list, results) ==
    LET completed == WithStatus(list, "completed")
    IN  [i \in DOMAIN completed |->
            contextBlock(completed[Len(completed) + 1 - i], results)]

\* completed.map(block).join(separator): the blocks, in order.
contextString(list, results) ==
    LET completed == WithStatus(list, "completed")
    IN  [i \in DOMAIN completed |-> contextBlock(completed[i], results)]

\* The ceiling test written with <= : one task too many is admitted.
slotFree_offByOne(running) == Len(running) <= MAX_CONCURRENCY

\* One task at a time: a slot is free only when nothing runs.
slotFree_oneAtATime(running) == Len(running) = 0

\* running.length < MAX_CONCURRENCY
slotFree(running) == Len(running) < MAX_CONCURRENCY

\* One pass of the while loop of processQueue over the current list, up to
\* its break, its return or its 50 ms delay.
\*   kind: "launch"   a task was set running and dispatched, then the delay
\*         "done"     nothing pending, nothing running: break
\*         "deadlock" pending tasks, none executable, none running: break
\*         "return"   ceiling reached or nothing executable: return
processQueuePass(list, results) ==
    LET pending == WithStatus(list, "pending")
        running == WithStatus(list, "running")
        exec    == executableTasks(list)
    IN  IF Len(pending) = 0 /\ Len(running) = 0
        THEN [kind |-> "done", tasks |-> list, next |-> 0, context |-> <<>>]
        ELSE IF slotFree(running) /\ Len(exec) > 0
        THEN [kind |-> "launch",
              tasks |-> updateStatus(list, nextTask(exec).id, "running"),
              next |-> nextTask(exec).id,
              context |-> contextString(list, results)]
        ELSE IF Len(pending) > 0 /\ Len(running) = 0 /\ Len(exec) = 0
        THEN [kind |-> "deadlock", tasks |-> list, next |-> 0, context |-> <<>>]
        ELSE [kind |-> "return", tasks |-> list, next |-> 0, context |-> <<>>]

\* The state a pass leaves behind, for whichever invocation of run r ran it;
\* `flying` is the run's unresolved promises before the pass, `shown` the
\* list of activeTasks before it (updateStatus writes both copies).
PassEffects(r, o, flying, shown) ==
    /\ tasksRef' = o.tasks
    /\ activeTasks' = IF o.kind = "launch"
                      THEN updateStatus(shown, o.next, "running") ELSE shown
    /\ inflight' = [inflight EXCEPT ![r] =
                      IF o.kind = "launch"
                      THEN [flying EXCEPT ![o.next] = @ + 1] ELSE flying]
    /\ contextOf' = IF o.kind = "launch"
                    THEN [contextOf EXCEPT ![r] = (o.next :> o.context) @@ @]
                    ELSE contextOf
    /\ warned' = (warned \/ o.kind = "deadlock")

\* The wait loop's test written with || : true of every task.
someUnfinished_orSlip(list) ==
    \E i \in DOMAIN list :
        list[i].status # "completed" \/ list[i].status # "failed"

\* The wait loop's test looking at the running tasks only.
someUnfinished_runningOnly(list) ==
    \E i \in DOMAIN list : list[i].status = "running"

\* tasksRef.current.some(t => t.status !== 'completed' && t.status !== 'failed')
someUnfinished(list) ==
    \E i \in DOMAIN list : list[i].status \notin {"completed", "failed"}

\* tasksRef.current.map(task => ({task, result: Map.get(task.id) || placeholder}))
finalResults(list, results) ==
    [i \in DOMAIN list |->
        [task |-> list[i],
         result |-> IF list[i].id \in DOMAIN results
                    THEN results[list[i].id] ELSE MISSING_RESULT]]

\* handleStartExecution of run r once `await processQueue()` has returned:
\* the wait loop's test, then either its 200 ms delay or SYNTHESIZING and the
\* call of synthesizeReport.  `shown` is the agent state if the loop goes on.
AfterProcessQueue(r, list, results, shown) ==
    IF someUnfinished(list)
    THEN /\ hsePc' = [hsePc EXCEPT ![r] = "waitLoop"]
         /\ agentState' = shown
         /\ synthCall' = synthCall
    ELSE /\ hsePc' = [hsePc EXCEPT ![r] = "awaitSynthesize"]
         /\ agentState' = "SYNTHESIZING"
         /\ synthCall' = [synthCall EXCEPT ![r] =
                            [calls |-> @.calls + 1,
                             query |-> closureQuery[r],
                             results |-> finalResults(list, results)]]

\* Executor calls so far that resolved with the placeholder of the catch block.
failures(results) ==
    Cardinality({id \in DOMAIN results : results[id].text = FAILED_TEXT})

\* useEffect([messages, activeThreadId]): the active thread stores the
\* messages shown.
syncThreads(th, active, msgs) ==
    IF active # NoThread /\ Len(msgs) > 0 /\ active \in DOMAIN th
    THEN [th EXCEPT ![active] = msgs] ELSE th

\* disabled={agentState !== IDLE && agentState !== ERROR} of the follow-up
\* input and its button
inputEnabled(state) == state \in {"IDLE", "ERROR"}

\* The welcome screen (its input carries no `disabled`) replaces the chat and
\* its follow-up input while no thread is active and no message is shown.
welcomeShown == activeThreadId = NoThread /\ Len(messages) = 0

\* ------------------------------------------------------------------- Init
\* The first search of a session: handleSearch("q1") has stored the
\* planner's tasks (priority normal) and is about to call
\* handleStartExecution.
Init ==
    /\ tasksRef \in PlannedGraphs
    /\ taskResultsMap = [r \in Runs |-> <<>>]
    /\ agentState = "PLANNING"
    /\ hsePc = [r \in Runs |-> IF r = 1 THEN "notStarted" ELSE "unused"]
    /\ pqSpawned = [r \in Runs |-> 0]
    /\ inflight = [r \in Runs |-> [id \in LaunchIds |-> 0]]
    /\ contextOf = [r \in Runs |-> <<>>]
    /\ completionOrder = <<>>
    /\ warned = FALSE
    /\ toggles = 0
    /\ lastToggle = 0
    /\ currentQueryString = "q1"
    /\ messages = <<UserMsg("q1")>>
    /\ activeThreadId = ThreadOfRun(1)
    /\ threads = (ThreadOfRun(1) :> <<UserMsg("q1")>>) @@ INITIAL_THREADS
    /\ searches = 1
    /\ planned = Len(tasksRef)
    /\ activeTasks = tasksRef
    /\ listOwner = 1
    /\ lastCall = NoCall
    /\ clicks = 0
    /\ searchQuery = [r \in Runs |-> IF r = 1 THEN "q1" ELSE ""]
    /\ closureQuery = [r \in Runs |-> ""]
    /\ synthCall = [r \in Runs |-> NoSynthCall]

\* The application as it starts: the welcome screen, no search yet.
SessionInit ==
    /\ tasksRef = <<>>
    /\ taskResultsMap = [r \in Runs |-> <<>>]
    /\ agentState = "IDLE"
    /\ hsePc = [r \in Runs |-> "unused"]
    /\ pqSpawned = [r \in Runs |-> 0]
    /\ inflight = [r \in Runs |-> [id \in LaunchIds |-> 0]]
    /\ contextOf = [r \in Runs |-> <<>>]
    /\ completionOrder = <<>>
    /\ warned = FALSE
    /\ toggles = 0
    /\ lastToggle = 0
    /\ currentQueryString = ""
    /\ messages = <<>>
    /\ activeThreadId = NoThread
    /\ threads = INITIAL_THREADS
    /\ searches = 0
    /\ planned = 0
    /\ activeTasks = <<>>
    /\ listOwner = 0
    /\ lastCall = NoCall
    /\ clicks = 0
    /\ searchQuery = [r \in Runs |-> ""]
    /\ closureQuery = [r \in Runs |-> ""]
    /\ synthCall = [r \in Runs |-> NoSynthCall]

\* ---------------------------------------------------------------- actions
\* handleStartExecution of run r on `list`, up to the first suspension:
\* SEARCHING, a fresh result Map, the first pass of processQueue.
startExecution(r, list) ==
    /\ LET o == processQueuePass(list, <<>>)
       IN  /\ PassEffects(r, o, inflight[r], list)
           /\ IF o.kind = "launch"
              THEN /\ hsePc' = [hsePc EXCEPT ![r] = "awaitProcessQueue"]
                   /\ agentState' = "SEARCHING"
                   /\ synthCall' = synthCall
              ELSE AfterProcessQueue(r, o.tasks, <<>>, "SEARCHING")
    /\ taskResultsMap' = [taskResultsMap EXCEPT ![r] = <<>>]
    /\ UNCHANGED <<pqSpawned, completionOrder, toggles, messages, threads,
                   sessionVars>>
    /\ lastToggle' = 0

\* handleSearch calls handleStartExecution on the list it has just stored.
handleStartExecution(r) ==
    /\ hsePc[r] = "notStarted"
    /\ startExecution(r, tasksRef)
    /\ UNCHANGED <<planned, listOwner, lastCall>>

\* The 50 ms delay of the awaited processQueue invocation ends.
processQueueWake(r) ==
    /\ UNCHANGED <<planned, listOwner, lastCall>>
    /\ hsePc[r] = "awaitProcessQueue"
    /\ LET o == processQueuePass(tasksRef, taskResultsMap[r])
       IN  /\ PassEffects(r, o, inflight[r], activeTasks)
           /\ IF o.kind = "launch"
              THEN UNCHANGED <<hsePc, agentState, synthCall>>
              ELSE AfterProcessQueue(r, o.tasks, taskResultsMap[r], agentState)
    /\ UNCHANGED <<taskResultsMap, pqSpawned, completionOrder, toggles,
                   messages, threads, sessionVars>>
    /\ lastToggle' = 0

\* The 50 ms delay of an invocation started by a completion ends.
spawnedWake(r) ==
    /\ UNCHANGED <<planned, listOwner, lastCall>>
    /\ pqSpawned[r] > 0
    /\ LET o == processQueuePass(tasksRef, taskResultsMap[r])
       IN  /\ PassEffects(r, o, inflight[r], activeTasks)
           /\ pqSpawned' = [pqSpawned EXCEPT ![r] =
                              IF o.kind = "launch" THEN @ ELSE @ - 1]
    /\ UNCHANGED <<taskResultsMap, agentState, hsePc, completionOrder,
                   toggles, messages, threads, sessionVars, synthCall>>
    /\ lastToggle' = 0

\* executeResearchTask(id, ...) of run r settles: the .then callback stores
\* the result, sets the task completed and calls processQueue().
executorResolves(r, id, outcome) ==
    /\ UNCHANGED <<planned, listOwner, lastCall>>
    /\ inflight[r][id] > 0
    /\ outcome = "throws" => failures(taskResultsMap[r]) < MaxFailures
    /\ LET results == storeResult(taskResultsMap[r], id,
                                  executeResearchTask(outcome))
           o == processQueuePass(updateStatus(tasksRef, id, "completed"), results)
       IN  /\ taskResultsMap' = [taskResultsMap EXCEPT ![r] = results]
           /\ PassEffects(r, o, [inflight[r] EXCEPT ![id] = @ - 1],
                          updateStatus(activeTasks, id, "completed"))
           /\ pqSpawned' = [pqSpawned EXCEPT ![r] =
                              IF o.kind = "launch" THEN @ + 1 ELSE @]
    /\ completionOrder' = Append(completionOrder, id)
    /\ UNCHANGED <<agentState, hsePc, toggles, messages, threads, sessionVars,
                   synthCall>>
    /\ lastToggle' = 0

\* The 200 ms delay of handleStartExecution's wait loop ends.
waitLoopWake(r) ==
    /\ UNCHANGED <<planned, listOwner, lastCall>>
    /\ hsePc[r] = "waitLoop"
    /\ AfterProcessQueue(r, tasksRef, taskResultsMap[r], agentState)
    /\ UNCHANGED <<tasksRef, activeTasks, taskResultsMap, pqSpawned, inflight, contextOf,
                   completionOrder, warned, toggles, messages, threads,
                   sessionVars>>
    /\ lastToggle' = 0

\* The user clicks the priority star; the handler is wired only while
\* SEARCHING.
toggleTaskPriority(id) ==
    /\ UNCHANGED <<planned, listOwner, lastCall>>
    /\ agentState = "SEARCHING"
    /\ toggles < MaxToggles
    /\ tasksRef' = togglePriority(tasksRef, id)
    /\ activeTasks' = togglePriority(activeTasks, id)
    /\ toggles' = toggles + 1
    /\ lastToggle' = id
    /\ UNCHANGED <<taskResultsMap, agentState, hsePc, pqSpawned, inflight,
                   contextOf, completionOrder, warned, messages, threads,
                   sessionVars, synthCall>>

\* synthesizeReport of run r resolves: the answer is appended, the state is
\* IDLE, the query string is cleared.
synthesizeResolves(r) ==
    /\ UNCHANGED <<planned, listOwner, lastCall>>
    /\ hsePc[r] = "awaitSynthesize"
    /\ hsePc' = [hsePc EXCEPT ![r] = "finished"]
    /\ agentState' = "IDLE"
    /\ messages' = Append(messages, ModelMsg)
    /\ threads' = syncThreads(threads, activeThreadId, messages')
    /\ currentQueryString' = ""
    /\ UNCHANGED <<tasksRef, activeTasks, taskResultsMap, pqSpawned, inflight, contextOf,
                   completionOrder, warned, toggles, activeThreadId, searches,
                   clicks, searchQuery, closureQuery, synthCall>>
    /\ lastToggle' = 0

\* synthesizeReport of run r throws: the catch block reports the error.
synthesizeRejects(r) ==
    /\ UNCHANGED <<planned, listOwner, lastCall>>
    /\ hsePc[r] = "awaitSynthesize"
    /\ hsePc' = [hsePc EXCEPT ![r] = "finished"]
    /\ agentState' = "ERROR"
    /\ messages' = Append(messages, ErrorMsg)
    /\ threads' = syncThreads(threads, activeThreadId, messages')
    /\ UNCHANGED <<tasksRef, activeTasks, taskResultsMap, pqSpawned, inflight, contextOf,
                   completionOrder, warned, toggles, sessionVars, synthCall>>
    /\ lastToggle' = 0

\* ------------------------------------------------------ session operations
\* Run s has returned and none of its timers or promises is outstanding:
\* its result Map and the arguments of its calls are garbage.
unreachable(s) ==
    /\ hsePc[s] = "finished"
    /\ pqSpawned[s] = 0
    /\ \A id \in LaunchIds : inflight[s][id] = 0

\* handleSearch(q) up to `await planResearch`: run r starts.  The closure
\* that will call handleStartExecution is the one of this render.
handleSearch(q) ==
    /\ UNCHANGED <<planned, listOwner, lastCall>>
    /\ searches < MaxRuns
    /\ welcomeShown \/ inputEnabled(agentState)
    /\ LET r == searches + 1
       IN  /\ searches' = r
           /\ searchQuery' = [searchQuery EXCEPT ![r] = q]
           /\ closureQuery' = [closureQuery EXCEPT ![r] = currentQueryString]
           /\ hsePc' = [hsePc EXCEPT ![r] = "planning"]
           /\ IF activeThreadId = NoThread
              THEN /\ activeThreadId' = ThreadOfRun(r)
                   /\ messages' = <<UserMsg(q)>>
                   /\ threads' = (ThreadOfRun(r) :> <<UserMsg(q)>>) @@ threads
              ELSE /\ activeThreadId' = activeThreadId
                   /\ messages' = Append(messages, UserMsg(q))
                   /\ threads' = syncThreads(threads, activeThreadId, messages')
    /\ currentQueryString' = q
    /\ activeTasks' = <<>>
    /\ tasksRef' = <<>>
    /\ agentState' = "PLANNING"
    /\ completionOrder' = <<>>
    /\ taskResultsMap' = [s \in Runs |-> IF unreachable(s) THEN <<>>
                                         ELSE taskResultsMap[s]]
    /\ contextOf' = [s \in Runs |-> IF unreachable(s) THEN <<>> ELSE contextOf[s]]
    /\ synthCall' = [s \in Runs |-> IF unreachable(s)
                                    THEN [synthCall[s] EXCEPT !.results = <<>>]
                                    ELSE synthCall[s]]
    /\ UNCHANGED <<pqSpawned, inflight, warned, toggles, clicks>>
    /\ lastToggle' = 0

\* planResearch of run r settles on `outcome`: handleSearch stores the
\* tasks in both copies and calls handleStartExecution.
plannerResolves(r, outcome) ==
    /\ hsePc[r] = "planning"
    /\ LET plan == initialTasks(planResearch(outcome))
       IN  /\ planned + Len(plan) <= MaxSessionTasks
           /\ planned' = planned + Len(plan)
           /\ startExecution(r, plan)
    /\ listOwner' = r
    /\ UNCHANGED lastCall

\* The reset with the ref left as it was: only the React state is cleared.
newResearchState_refKept ==
    /\ activeThreadId' = NoThread
    /\ messages' = <<>>
    /\ currentQueryString' = ""
    /\ agentState' = "IDLE"
    /\ activeTasks' = <<>>
    /\ tasksRef' = tasksRef

\* The reset shared by startNewResearch and deleteThread.
newResearchState ==
    /\ activeThreadId' = NoThread
    /\ messages' = <<>>
    /\ currentQueryString' = ""
    /\ agentState' = "IDLE"
    /\ activeTasks' = <<>>
    /\ tasksRef' = <<>>

\* The "New Research" buttons; they carry no `disabled`.
startNewResearch ==
    /\ UNCHANGED <<planned, listOwner, lastCall>>
    /\ clicks < MaxClicks
    /\ clicks' = clicks + 1
    /\ newResearchState
    /\ UNCHANGED <<taskResultsMap, hsePc, pqSpawned, inflight, contextOf,
                   completionOrder, warned, toggles, threads, searches,
                   searchQuery, closureQuery, synthCall>>
    /\ lastToggle' = 0

\* A click on thread t of the sidebar.
switchToThread(t) ==
    /\ UNCHANGED <<planned, listOwner, lastCall>>
    /\ clicks < MaxClicks
    /\ clicks' = clicks + 1
    /\ t \in DOMAIN threads
    /\ activeThreadId' = t
    /\ messages' = threads[t]
    /\ agentState' = "IDLE"
    /\ activeTasks' = <<>>
    /\ tasksRef' = <<>>
    /\ threads' = syncThreads(threads, t, messages')
    /\ UNCHANGED <<taskResultsMap, hsePc, pqSpawned, inflight, contextOf,
                   completionOrder, warned, toggles, currentQueryString,
                   searches, searchQuery, closureQuery, synthCall>>
    /\ lastToggle' = 0

\* The delete button of thread t of the sidebar.
deleteThread(t) ==
    /\ UNCHANGED <<planned, listOwner, lastCall>>
    /\ clicks < MaxClicks
    /\ clicks' = clicks + 1
    /\ t \in DOMAIN threads
    /\ threads' = [u \in DOMAIN threads \ {t} |-> threads[u]]
    /\ IF activeThreadId = t
       THEN newResearchState
       ELSE UNCHANGED <<activeThreadId, messages, currentQueryString,
                        agentState, activeTasks, tasksRef>>
    /\ UNCHANGED <<taskResultsMap, hsePc, pqSpawned, inflight, contextOf,
                   completionOrder, warned, toggles, searches, searchQuery,
                   closureQuery, synthCall>>
    /\ lastToggle' = 0

\* ------------------------------------------------------------ specifications
\* One run, from the call of handleStartExecution on, the user touching
\* nothing but the priority stars.
Next ==
    \/ \E r \in Runs : handleStartExecution(r)
    \/ \E r \in Runs : processQueueWake(r)
    \/ \E r \in Runs : spawnedWake(r)
    \/ \E r \in Runs, id \in TaskIds, outcome \in BackendOutcomes :
          executorResolves(r, id, outcome)
    \/ \E r \in Runs : waitLoopWake(r)
    \/ \E id \in DepIds : toggleTaskPriority(id)
    \/ \E r \in Runs : synthesizeResolves(r)
    \/ \E r \in Runs : synthesizeRejects(r)

Spec == Init /\ [][Next]_vars

\* Timers fire, and every backend call eventually settles.
Fairness ==
    /\ WF_vars(\E r \in Runs : handleStartExecution(r))
    /\ WF_vars(\E r \in Runs : processQueueWake(r))
    /\ WF_vars(\E r \in Runs : spawnedWake(r))
    /\ WF_vars(\E r \in Runs, id \in TaskIds, outcome \in BackendOutcomes :
                  executorResolves(r, id, outcome))
    /\ WF_vars(\E r \in Runs : waitLoopWake(r))
    /\ WF_vars(\E r \in Runs : synthesizeResolves(r) \/ synthesizeRejects(r))

FairSpec == Spec /\ Fairness

\* A whole session: searches, and every click the page offers while they run.
SessionNext ==
    \/ \E q \in Queries : handleSearch(q)
    \/ \E r \in Runs, outcome \in RawOutcomes(SessionGraphs) :
          plannerResolves(r, outcome)
    \/ startNewResearch
    \/ \E t \in DOMAIN threads : switchToThread(t)
    \/ \E t \in DOMAIN threads : deleteThread(t)
    \/ \E r \in Runs : processQueueWake(r)
    \/ \E r \in Runs : spawnedWake(r)
    \/ \E r \in Runs, id \in LaunchIds, outcome \in BackendOutcomes :
          executorResolves(r, id, outcome)
    \/ \E r \in Runs : waitLoopWake(r)
    \/ \E id \in DepIds \cup {FALLBACK_ID} : toggleTaskPriority(id)
    \/ \E r \in Runs : synthesizeResolves(r)
    \/ \E r \in Runs : synthesizeRejects(r)

SessionSpec == SessionInit /\ [][SessionNext]_vars

\* ------------------------------------------------------- geminiService
\* Grounding chunks of a response: a chunk without `web`, or a web chunk
\* whose title and uri may be missing ("").
Uris == {"https://a.org/x", "https://a.org/y"}
Chunks ==
    [web : {FALSE}, title : {""}, uri : {""}]
    \cup [web : {TRUE}, title : {"", "T1", "T2"}, uri : {""} \cup Uris]

\* Responses of the backend: no candidate or no grounding metadata, or a
\* list of grounding chunks.
Responses ==
    {[grounded |-> FALSE, chunks |-> <<>>]}
    \cup {[grounded |-> TRUE, chunks |-> c]
            : c \in UNION {[1..n -> Chunks] : n \in 0..MaxChunks}}

\* new URL(uri || 'https://google.com').hostname.replace('www.', '')
hostname(uri) == IF uri = "" THEN "google.com" ELSE "a.org"

\* The Source pushed for a web chunk.
sourceOf(chunk) ==
    [title |-> IF chunk.title = "" THEN "Web Source" ELSE chunk.title,
     url |-> IF chunk.uri = "" THEN "#" ELSE chunk.uri,
     snippet |-> "",
     source |-> hostname(chunk.uri)]

\* a.findIndex(t => t.url === url), for a url that occurs in a
findIndex(a, url) ==
    CHOOSE i \in DOMAIN a :
        a[i].url = url /\ \A j \in 1..(i - 1) : a[j].url # url

\* The elements of a at the indices of keep, in the order of a.
pick(a, keep) ==
    LET nth(k) == CHOOSE i \in keep : Cardinality({j \in keep : j <= i}) = k
    IN  [k \in 1..Cardinality(keep) |-> a[nth(k)]]

\* The filter with findLastIndex: the last entry of every url is kept.
uniqueByUrl_lastKept(a) ==
    pick(a, {i \in DOMAIN a : \A j \in DOMAIN a : a[j].url = a[i].url => j <= i})

\* a.filter((v, i, a) => a.findIndex(t => t.url === v.url) === i)
uniqueByUrl(a) ==
    pick(a, {i \in DOMAIN a : findIndex(a, a[i].url) = i})

\* extractSources(response)
extractSources(response) ==
    IF ~response.grounded
    THEN <<>>
    ELSE LET web == SelectSeq(response.chunks, LAMBDA c : c.web)
         IN  uniqueByUrl([k \in DOMAIN web |-> sourceOf(web[k])])

\* Sources as extractSources builds them, and the source lists and agent
\* results synthesizeReport can be handed.
Sources ==
    {sourceOf(c) : c \in [web : {TRUE}, title : {"T1", "T2"}, uri : {""} \cup Uris]}
SourceLists == UNION {[1..n -> Sources] : n \in 0..MaxSources}
AgentResults ==
    UNION {[1..n -> [result : [text : {"findings"}, sources : SourceLists]]]
           : n \in 0..MaxResults}

\* agentResults.forEach(item => allSources.push(...item.result.sources))
RECURSIVE allSources(_)
allSources(agentResults) ==
    IF agentResults = <<>>
    THEN <<>>
    ELSE agentResults[1].result.sources \o allSources(Tail(agentResults))

\* The sources synthesizeReport returns next to its text.
uniqueSources(agentResults) == uniqueByUrl(allSources(agentResults))

\* Every variable but lastCall.
appVars == <<tasksRef, taskResultsMap, agentState, hsePc, pqSpawned, inflight,
             contextOf, completionOrder, warned, toggles, lastToggle,
             currentQueryString, messages, activeThreadId, threads, searches,
             planned, clicks, searchQuery, closureQuery, synthCall,
             activeTasks, listOwner>>

\* Calls of the service functions so far.
calls == IF lastCall = NoCall THEN 0 ELSE 1

\* A call of planResearch whose backend call ends in `outcome`.
planResearchCall(outcome) ==
    /\ calls < MaxCalls
    /\ lastCall' = [fn |-> "planResearch", arg |-> outcome,
                    ret |-> planResearch(outcome)]
    /\ UNCHANGED appVars

\* A call of extractSources, as executeResearchTask makes it on the response
\* of its backend call.
extractSourcesCall(response) ==
    /\ calls < MaxCalls
    /\ lastCall' = [fn |-> "extractSources", arg |-> response,
                    ret |-> extractSources(response)]
    /\ UNCHANGED appVars

\* A call of synthesizeReport whose backend call responds.
synthesizeReportCall(agentResults) ==
    /\ calls < MaxCalls
    /\ lastCall' = [fn |-> "synthesizeReport", arg |-> agentResults,
                    ret |-> [text |-> "answer",
                             sources |-> uniqueSources(agentResults)]]
    /\ UNCHANGED appVars

\* The functions of the service, called on every input of the bounded sets.
ServiceNext ==
    \/ \E outcome \in RawOutcomes(PlannedGraphs) : planResearchCall(outcome)
    \/ \E response \in Responses : extractSourcesCall(response)
    \/ \E agentResults \in AgentResults : synthesizeReportCall(agentResults)

ServiceSpec == SessionInit /\ [][ServiceNext]_vars

\* -------------------------------------------------------- review handlers
\* The task handleAddTask appends.
customTask(id) ==
    [id |-> id, agentRole |-> <<"role", id>>, title |-> <<"title", id>>,
     goal |-> <<"goal", id>>, status |-> "pending", priority |-> "normal",
     dependencies |-> {}]

\* Partial<AgentTask> values the task editor hands to handleUpdateTask.
TaskUpdates ==
    {[field |-> "goal", value |-> <<"goal", 0>>]}
    \cup {[field |-> "dependencies", value |-> {}]}

\* {...t, ...updates}
withUpdates(t, updates) ==
    IF updates.field = "goal"
    THEN [t EXCEPT !.goal = updates.value]
    ELSE [t EXCEPT !.dependencies = updates.value]

\* handleUpdateTask's update(tasks)
updateTask(list, id, updates) ==
    [i \in DOMAIN list |->
        IF list[i].id = id THEN withUpdates(list[i], updates) ELSE list[i]]

\* The task removed, the dependency lists of the others left as they were.
deleteTask_depsKept(list, id) == SelectSeq(list, LAMBDA t : t.id # id)

\* handleDeleteTask's update(tasks): the task filtered out, its id filtered
\* out of every dependency list.
deleteTask(list, id) ==
    LET kept == SelectSeq(list, LAMBDA t : t.id # id)
    IN  [i \in DOMAIN kept |->
            [kept[i] EXCEPT !.dependencies = @ \ {id}]]

\* Every variable the review handlers leave alone.
reviewVars == <<taskResultsMap, agentState, hsePc, pqSpawned, inflight,
                contextOf, completionOrder, warned, toggles, lastToggle,
                currentQueryString, messages, activeThreadId, threads,
                searches, planned, clicks, searchQuery, closureQuery,
                synthCall, listOwner>>

\* The plan is shown for review: the state in which the task editor offers
\* handleUpdateTask, handleAddTask and handleDeleteTask.
ReviewInit ==
    /\ tasksRef \in PlannedGraphs \cup {initialTasks(FALLBACK_TASKS)}
    /\ activeTasks = tasksRef
    /\ taskResultsMap = [r \in Runs |-> <<>>]
    /\ agentState = "REVIEWING"
    /\ hsePc = [r \in Runs |-> IF r = 1 THEN "finished" ELSE "unused"]
    /\ pqSpawned = [r \in Runs |-> 0]
    /\ inflight = [r \in Runs |-> [id \in LaunchIds |-> 0]]
    /\ contextOf = [r \in Runs |-> <<>>]
    /\ completionOrder = <<>>
    /\ warned = FALSE
    /\ toggles = 0
    /\ lastToggle = 0
    /\ currentQueryString = "q1"
    /\ messages = <<UserMsg("q1")>>
    /\ activeThreadId = ThreadOfRun(1)
    /\ threads = (ThreadOfRun(1) :> <<UserMsg("q1")>>) @@ INITIAL_THREADS
    /\ searches = 1
    /\ planned = Len(tasksRef)
    /\ clicks = 0
    /\ searchQuery = [r \in Runs |-> IF r = 1 THEN "q1" ELSE ""]
    /\ closureQuery = [r \in Runs |-> ""]
    /\ synthCall = [r \in Runs |-> NoSynthCall]
    /\ listOwner = 1
    /\ lastCall = NoCall

handleUpdateTask(id, updates) ==
    /\ tasksRef' = updateTask(tasksRef, id, updates)
    /\ activeTasks' = updateTask(activeTasks, id, updates)
    /\ lastCall' = [fn |-> "handleUpdateTask",
                    arg |-> [id |-> id, tasks |-> tasksRef], ret |-> <<>>]
    /\ UNCHANGED reviewVars

handleAddTask ==
    /\ \E id \in CustomIds : id \notin IdsOf(tasksRef)
    /\ LET newTask == customTask(CHOOSE id \in CustomIds : id \notin IdsOf(tasksRef))
       IN  /\ tasksRef' = Append(tasksRef, newTask)
           /\ activeTasks' = Append(activeTasks, newTask)
    /\ lastCall' = [fn |-> "handleAddTask",
                    arg |-> [id |-> 0, tasks |-> tasksRef], ret |-> <<>>]
    /\ UNCHANGED reviewVars

handleDeleteTask(id) ==
    /\ tasksRef' = deleteTask(tasksRef, id)
    /\ activeTasks' = deleteTask(activeTasks, id)
    /\ lastCall' = [fn |-> "handleDeleteTask",
                    arg |-> [id |-> id, tasks |-> tasksRef], ret |-> <<>>]
    /\ UNCHANGED reviewVars

\* The handlers of the task editor, on a plan under review.
ReviewNext ==
    \/ \E id \in IdsOf(tasksRef), updates \in TaskUpdates :
          handleUpdateTask(id, updates)
    \/ handleAddTask
    \/ \E id \in IdsOf(tasksRef) : handleDeleteTask(id)

ReviewSpec == ReviewInit /\ [][ReviewNext]_vars

\* ------------------------------------------------------ shared vocabulary
\* The run of Spec: the first of the session.
TheRun == CHOOSE r \in Runs : \A s \in Runs : r <= s

StatusOf(list, id) ==
    IF \E i \in DOMAIN list : list[i].id = id
    THEN (CHOOSE t \in Range(list) : t.id = id).status
    ELSE "absent"

Count(list, st) == Cardinality({i \in DOMAIN list : list[i].status = st})

\* Task i of the list is pending and each of its dependency ids names a
\* completed task of the list.
Eligible(list, i) ==
    /\ list[i].status = "pending"
    /\ \A d \in list[i].dependencies : StatusOf(list, d) = "completed"

\* The step sets task i running.
Launches(i) ==
    /\ i \in DOMAIN tasksRef /\ i \in DOMAIN tasksRef'
    /\ tasksRef[i].status = "pending"
    /\ tasksRef'[i].status = "running"

\* ---------------------------------------------------------------------- C1
\* C1: in every reachable state of a run the number of tasks whose status
\* is running is at most MAX_CONCURRENCY.
C1_ConcurrencyCeiling == Count(tasksRef, "running") <= MAX_CONCURRENCY

\* The ceiling is reached while an eligible task is left waiting.
C1_Witness ==
    /\ Count(tasksRef, "running") = MAX_CONCURRENCY
    /\ \E i \in DOMAIN tasksRef : Eligible(tasksRef, i)

\* ---------------------------------------------------------------------- C2
\* C2: a task that is running or completed has every dependency id naming
\* a completed task of the list; it is never running or completed while a
\* dependency is pending or running.
C2_DependenciesFirst ==
    \A i \in DOMAIN tasksRef :
        tasksRef[i].status \in {"running", "completed"} =>
            \A d \in tasksRef[i].dependencies :
                StatusOf(tasksRef, d) = "completed"

\* A task with a dependency is running, another task is still pending on it.
C2_Witness ==
    \E i, j \in DOMAIN tasksRef :
        /\ tasksRef[i].status = "running"
        /\ tasksRef[i].dependencies # {}
        /\ tasksRef[j].status = "pending"
        /\ tasksRef[i].id \in tasksRef[j].dependencies

\* ---------------------------------------------------------------------- C3
\* Ids of the tasks that can be completed once the tasks of S are.
RECURSIVE Completable(_, _)
Completable(list, S) ==
    LET T == S \cup {list[i].id : i \in {j \in DOMAIN list :
                                          list[j].dependencies \subseteq S}}
    IN  IF T = S THEN S ELSE Completable(list, T)

\* The graph is acyclic and every dependency id names a task of the list.
WellFormed(list) == Completable(list, {}) = IdsOf(list)

SynthesizerInvoked == hsePc[TheRun] \in {"awaitSynthesize", "finished"}

\* C3: for an acyclic graph whose dependency ids all name tasks of the
\* list, when every executor call resolves, eventually every task is
\* completed, handleStartExecution has left its wait loop and the
\* Synthesizer has been invoked.
C3_RunCompletes ==
    WellFormed(tasksRef) =>
        <>(/\ \A i \in DOMAIN tasksRef : tasksRef[i].status = "completed"
           /\ SynthesizerInvoked)

\* A graph with a dependency has been run to the end.
C3_Witness ==
    /\ SynthesizerInvoked
    /\ Len(tasksRef) >= 3
    /\ \E i \in DOMAIN tasksRef : tasksRef[i].dependencies # {}
    /\ \A i \in DOMAIN tasksRef : tasksRef[i].status = "completed"

\* ---------------------------------------------------------------------- C4
\* The run has started, tasks are pending, none is running, none eligible.
DeadlockState ==
    /\ hsePc[TheRun] # "notStarted"
    /\ Count(tasksRef, "pending") > 0
    /\ Count(tasksRef, "running") = 0
    /\ \A i \in DOMAIN tasksRef : ~Eligible(tasksRef, i)

\* C4: once the deadlock state is reached, handleStartExecution eventually
\* leaves the SEARCHING state (reaches synthesis or the error path).
C4_DeadlockTerminates == DeadlockState ~> (agentState # "SEARCHING")

\* ---------------------------------------------------------------------- C5
\* C5: when the scheduler has detected a deadlock, no task is left
\* pending: every task that was pending is failed.
C5_DeadlockFailsPending ==
    warned => \A i \in DOMAIN tasksRef : tasksRef[i].status # "pending"

\* ---------------------------------------------------------------------- C6
\* Task j, left eligible by a launch of task i, should have gone first.
Outranks(list, j, i) ==
    /\ Eligible(list, j)
    /\ \/ list[j].priority = "high" /\ list[i].priority # "high"
       \/ /\ (list[j].priority = "high") = (list[i].priority = "high")
          /\ j < i

\* C6: whenever processQueue launches a task, it is the first eligible
\* task of priority high in list order if there is one, and the first
\* eligible task in list order otherwise.
C6_PriorityThenListOrder ==
    [][\A i \in DOMAIN tasksRef :
          Launches(i) => \A j \in DOMAIN tasksRef' : ~Outranks(tasksRef', j, i)]_vars

\* A high-priority task was launched ahead of an earlier task of the list
\* that has no dependencies and is still pending.
C6_Witness ==
    \E i, j \in DOMAIN tasksRef :
        /\ i < j
        /\ tasksRef[j].status = "running" /\ tasksRef[j].priority = "high"
        /\ tasksRef[i].status = "pending" /\ tasksRef[i].priority = "normal"
        /\ tasksRef[i].dependencies = {}

\* ---------------------------------------------------------------------- C7
\* The block of task t, carrying the findings stored for it.
BlockFor(t) ==
    [agentRole |-> t.agentRole, title |-> t.title, goal |-> t.goal,
     findings |-> taskResultsMap'[TheRun][t.id].text]

\* C7: the context given to a launched task holds exactly one block (role,
\* title, goal, findings) per task that is completed at the launch, and
\* nothing else; the first launch of a run gets the empty context.
C7_ContextIsAllCompleted ==
    [][\A i \in DOMAIN tasksRef :
          Launches(i) =>
            LET ctx == contextOf'[TheRun][tasksRef[i].id]
                done == {j \in DOMAIN tasksRef' : tasksRef'[j].status = "completed"}
            IN  /\ Len(ctx) = Cardinality(done)
                /\ \A j \in done :
                      /\ tasksRef'[j].id \in DOMAIN taskResultsMap'[TheRun]
                      /\ Cardinality({k \in DOMAIN ctx :
                                        ctx[k] = BlockFor(tasksRef'[j])}) = 1
                /\ (hsePc[TheRun] = "notStarted" => ctx = <<>>)]_vars

\* A task was launched with the findings of a task it does not depend on.
C7_Witness ==
    \E i, j \in DOMAIN tasksRef :
        /\ tasksRef[i].id \in DOMAIN contextOf[TheRun]
        /\ tasksRef[j].id \notin tasksRef[i].dependencies
        /\ \E k \in DOMAIN contextOf[TheRun][tasksRef[i].id] :
              contextOf[TheRun][tasksRef[i].id][k].title = tasksRef[j].title

\* ---------------------------------------------------------------------- C8
\* Position of the task a block names, in a sequence of ids / in the list.
PosIn(seq, x) == CHOOSE k \in DOMAIN seq : seq[k] = x

ListPos(title) == CHOOSE i \in DOMAIN tasksRef : tasksRef[i].title = title

BlockId(b) == tasksRef[ListPos(b.title)].id

\* C8 as stated: the blocks of every context appear in the order in which
\* their tasks completed.
C8_CompletionOrder ==
    \A id \in DOMAIN contextOf[TheRun] :
        \A k, l \in DOMAIN contextOf[TheRun][id] :
            k < l => PosIn(completionOrder, BlockId(contextOf[TheRun][id][k]))
                       < PosIn(completionOrder, BlockId(contextOf[TheRun][id][l]))

\* C8 amended: the blocks of every context appear in task-list order.
C8_ListOrder ==
    \A id \in DOMAIN contextOf[TheRun] :
        \A k, l \in DOMAIN contextOf[TheRun][id] :
            k < l => ListPos(contextOf[TheRun][id][k].title) < ListPos(contextOf[TheRun][id][l].title)

\* A context of two blocks whose tasks completed against list order.
C8_Witness ==
    \E id \in DOMAIN contextOf[TheRun] :
        /\ Len(contextOf[TheRun][id]) = 2
        /\ PosIn(completionOrder, BlockId(contextOf[TheRun][id][2]))
             < PosIn(completionOrder, BlockId(contextOf[TheRun][id][1]))

\* ---------------------------------------------------------------------- C9
\* The record of task i but for its priority.
SansPriority(t) == [f \in DOMAIN t \ {"priority"} |-> t[f]]

\* C9: a call toggleTaskPriority(id) flips the priority of exactly the
\* task named id when it is pending and changes no priority otherwise; it
\* changes no status, no dependency list, no other field and nothing else
\* of the run; and no other step changes a priority.
C9_ToggleOnlyPending ==
    [][/\ toggles' # toggles =>
            /\ DOMAIN tasksRef' = DOMAIN tasksRef
            /\ \A i \in DOMAIN tasksRef :
                  /\ SansPriority(tasksRef'[i]) = SansPriority(tasksRef[i])
                  /\ tasksRef'[i].priority \in {"normal", "high"}
                  /\ (tasksRef'[i].priority # tasksRef[i].priority)
                        <=> (tasksRef[i].id = lastToggle'
                               /\ tasksRef[i].status = "pending")
            /\ UNCHANGED <<taskResultsMap, inflight, contextOf, hsePc,
                           agentState, pqSpawned>>
       /\ toggles' = toggles =>
            \A i \in DOMAIN tasksRef :
                tasksRef'[i].priority = tasksRef[i].priority]_vars

\* The star of a running task was clicked and its priority stayed normal.
C9_Witness ==
    /\ toggles = 1
    /\ \E i \in DOMAIN tasksRef :
          /\ tasksRef[i].id = lastToggle
          /\ tasksRef[i].status = "running"
          /\ tasksRef[i].priority = "normal"

\* --------------------------------------------------------------------- C10
\* C10: a task's status only moves from pending to running, from running
\* to completed, or to failed from a status that is not terminal; a
\* completed or failed task keeps its status.
C10_StatusForward ==
    [][\A i \in DOMAIN tasksRef :
          /\ i \in DOMAIN tasksRef'
          /\ tasksRef'[i].status # tasksRef[i].status =>
                \/ tasksRef[i].status = "pending" /\ tasksRef'[i].status = "running"
                \/ tasksRef[i].status = "running" /\ tasksRef'[i].status = "completed"
                \/ /\ tasksRef[i].status \in {"pending", "running"}
                   /\ tasksRef'[i].status = "failed"]_vars

\* One task is completed while the task launched after it is running.
C10_Witness ==
    \E i, j \in DOMAIN tasksRef :
        /\ tasksRef[i].status = "completed"
        /\ tasksRef[j].status = "running"
        /\ tasksRef[i].id \in tasksRef[j].dependencies

\* --------------------------------------------------------------------- C11
\* Ids whose entry in the result Map of run r the step writes.
Stored(r) == DOMAIN taskResultsMap'[r] \ DOMAIN taskResultsMap[r]

\* C11: within one run the result Map gets the entry of a task id in the
\* step in which that task's executor call resolves (the task goes from
\* running to completed), one entry per step, and an entry once written is
\* never overwritten and never removed.
C11_ResultWrittenOnce ==
    [][\A r \in Runs :
          /\ \A id \in DOMAIN taskResultsMap[r] :
                /\ id \in DOMAIN taskResultsMap'[r]
                /\ taskResultsMap'[r][id] = taskResultsMap[r][id]
          /\ Cardinality(Stored(r)) <= 1
          /\ \A id \in Stored(r) :
                /\ inflight[r][id] > 0
                /\ StatusOf(tasksRef, id) = "running"
                /\ StatusOf(tasksRef', id) = "completed"]_vars

\* The Map holds the findings of one task and the placeholder of another.
C11_Witness ==
    \E r \in Runs : \E id, jd \in DOMAIN taskResultsMap[r] :
        /\ taskResultsMap[r][id].text = "findings"
        /\ taskResultsMap[r][jd].text = FAILED_TEXT

\* --------------------------------------------------------------------- C12
\* C12: an executor call always settles by resolving; when its backend call
\* throws, the result stored is the placeholder text with no sources, the
\* task is set completed as after a success, and no task ever gets the
\* status failed.
C12_ExecutorFailureCompletes ==
    [][/\ \A r \in Runs : \A id \in Stored(r) :
             /\ StatusOf(tasksRef', id) = "completed"
             /\ taskResultsMap'[r][id] \in
                   {executeResearchTask(o) : o \in BackendOutcomes}
             /\ taskResultsMap'[r][id].text = FAILED_TEXT =>
                   taskResultsMap'[r][id].sources = <<>>
       /\ \A i \in DOMAIN tasksRef' : tasksRef'[i].status # "failed"]_vars

\* A task was launched after a task it depends on ended in the placeholder.
C12_Witness ==
    \E i, j \in DOMAIN tasksRef :
        /\ tasksRef[i].id \in tasksRef[j].dependencies
        /\ tasksRef[i].id \in DOMAIN taskResultsMap[TheRun]
        /\ taskResultsMap[TheRun][tasksRef[i].id].text = FAILED_TEXT
        /\ tasksRef[i].status = "completed"
        /\ tasksRef[j].status \in {"running", "completed"}

\* --------------------------------------------------------------------- C13
\* C13: within one run synthesizeReport is called at most once, and only
\* when no task is pending or running; the list it is given holds one pair
\* per task of the list, in list order, pairing the task with its entry of
\* the result Map, or with the placeholder {text: "Failed", sources: []}
\* when the Map has no entry for it.
C13_SynthesisOnceAfterAll ==
    \A r \in Runs :
        /\ synthCall[r].calls <= 1
        /\ synthCall[r].calls = 1 =>
              /\ Count(tasksRef, "pending") = 0
              /\ Count(tasksRef, "running") = 0
              /\ Len(synthCall[r].results) = Len(tasksRef)
              /\ \A i \in DOMAIN tasksRef :
                    LET pair == synthCall[r].results[i]
                    IN  /\ pair.task = tasksRef[i]
                        /\ tasksRef[i].id \in DOMAIN taskResultsMap[r]
                              => pair.result = taskResultsMap[r][tasksRef[i].id]
                        /\ tasksRef[i].id \notin DOMAIN taskResultsMap[r]
                              => pair.result = [text |-> "Failed", sources |-> <<>>]

\* The Synthesizer was called with the results of three tasks, one of them
\* the executor's placeholder.
C13_Witness ==
    /\ synthCall[TheRun].calls = 1
    /\ Len(synthCall[TheRun].results) >= 3
    /\ \E i, j \in DOMAIN synthCall[TheRun].results :
          /\ synthCall[TheRun].results[i].result.text = "findings"
          /\ synthCall[TheRun].results[j].result.text = FAILED_TEXT

\* --------------------------------------------------------------------- C14
\* C14: the query synthesizeReport is called with at the end of the run
\* started by handleSearch(q) is q, whatever searches came before.
C14_SynthesizerGetsQuery ==
    \A r \in Runs : synthCall[r].calls > 0 => synthCall[r].query = searchQuery[r]

\* --------------------------------------------------------------------- C15
\* The step ends the call of synthesizeReport of run r.
SynthesisEnds(r) == hsePc[r] = "awaitSynthesize" /\ hsePc'[r] = "finished"

\* C15: the step that ends a call of synthesizeReport either appends the
\* answer and sets IDLE, or (the call failed) appends the one fixed error
\* message and nothing else and sets ERROR; the Synthesizer is not called
\* again and the run stays finished; in the state ERROR the query input is
\* shown and enabled, and a search is accepted only when the state is IDLE
\* or ERROR.
C15_SynthesisFailureEndsInError ==
    [][/\ \A r \in Runs :
             /\ SynthesisEnds(r) =>
                   /\ \/ /\ agentState' = "IDLE"
                         /\ messages' = Append(messages, ModelMsg)
                      \/ /\ agentState' = "ERROR"
                         /\ messages' = Append(messages, ErrorMsg)
                   /\ synthCall'[r].calls = synthCall[r].calls
             /\ hsePc[r] = "finished" =>
                   /\ hsePc'[r] = "finished"
                   /\ synthCall'[r].calls = synthCall[r].calls
       /\ agentState' = "ERROR" => inputEnabled(agentState') /\ ~welcomeShown'
       /\ searches' # searches => agentState \in {"IDLE", "ERROR"}]_vars

\* --------------------------------------------------------------------- C16
\* C16: the executable set processQueue computes is the set of the tasks
\* that are pending and whose every dependency id is the id of a completed
\* task of the list (a task without dependency ids whenever it is pending);
\* no running, completed or failed task is in it.
C16_ExecutableSet ==
    /\ Range(executableTasks(tasksRef))
           = {tasksRef[i] : i \in {j \in DOMAIN tasksRef : Eligible(tasksRef, j)}}
    /\ \A i \in DOMAIN tasksRef :
          tasksRef[i].status = "pending" /\ tasksRef[i].dependencies = {}
             => tasksRef[i] \in Range(executableTasks(tasksRef))
    /\ \A t \in Range(executableTasks(tasksRef)) : t.status = "pending"

\* One task runs, a task without dependencies is executable, and a task
\* that depends on the running one is pending and not executable.
C16_Witness ==
    \E i, j, k \in DOMAIN tasksRef :
        /\ tasksRef[i].status = "running"
        /\ tasksRef[j].status = "pending" /\ tasksRef[j].dependencies = {}
        /\ tasksRef[k].status = "pending"
        /\ tasksRef[i].id \in tasksRef[k].dependencies
        /\ Range(executableTasks(tasksRef)) = {tasksRef[j]}

\* --------------------------------------------------------------------- C18
\* Ids the tasks of S depend on, directly or through other tasks, and S.
RECURSIVE DepClosure(_, _)
DepClosure(list, S) ==
    LET T == S \cup UNION {list[i].dependencies :
                              i \in {j \in DOMAIN list : list[j].id \in S}}
    IN  IF T = S THEN S ELSE DepClosure(list, T)

\* Task i depends on an id that names no task of the list.
Dangling(list, i) == ~(list[i].dependencies \subseteq IdsOf(list))

\* Task i depends, directly or through other tasks, on such an id.
DependsOnDangling(list, i) ==
    ~(DepClosure(list, {list[i].id}) \subseteq IdsOf(list))

\* The list but for the dependency ids that name no task.
KnownDepsOnly(list) ==
    [i \in DOMAIN list |->
        [list[i] EXCEPT !.dependencies = @ \cap IdsOf(list)]]

C19_IndependentTasksOverlap ==
    /\ \A i, j \in DOMAIN tasksRef :
          /\ i # j
          /\ tasksRef[i].status = "running"
          /\ tasksRef[j].status = "running"
          => tasksRef[j].id \notin DepClosure(tasksRef, {tasksRef[i].id})
    /\ /\ Count(tasksRef, "running") >= 1
       /\ Count(tasksRef, "running") < MAX_CONCURRENCY
       /\ \E i \in DOMAIN tasksRef : Eligible(tasksRef, i)
       => hsePc[TheRun] = "awaitProcessQueue" \/ pqSpawned[TheRun] > 0

\* A and C run at the same time while B, which depends on A, is pending.
C19_Witness ==
    \E a, b, c \in DOMAIN tasksRef :
        /\ a < b /\ b < c
        /\ tasksRef[a].status = "running" /\ tasksRef[a].dependencies = {}
        /\ tasksRef[c].status = "running" /\ tasksRef[c].dependencies = {}
        /\ tasksRef[b].status = "pending"
        /\ tasksRef[b].dependencies = {tasksRef[a].id}

\* --------------------------------------------------------------------- C20
\* C20: while a task of the list is pending or running, a step changes the
\* list only by changing the status or the priority of its tasks (launch,
\* completion, priority toggle).
C20_OnlySchedulerWrites ==
    [][(\E i \in DOMAIN tasksRef : tasksRef[i].status \in {"pending", "running"})
          => /\ DOMAIN tasksRef' = DOMAIN tasksRef
             /\ \A i \in DOMAIN tasksRef :
                   [tasksRef'[i] EXCEPT !.status = "", !.priority = ""]
                     = [tasksRef[i] EXCEPT !.status = "", !.priority = ""]]_vars

\* --------------------------------------------------------------------- C21
\* C21: when the planner's backend call throws, or its text cannot be
\* parsed into a list of tasks, planResearch returns (it does not throw) a
\* list of exactly one task: the fallback, with status pending and an empty
\* dependency list.
C21_PlannerFallback ==
    lastCall.fn = "planResearch" /\ lastCall.arg.kind # "tasks"
    => /\ Len(lastCall.ret) = 1
       /\ lastCall.ret[1].id = FALLBACK_ID
       /\ lastCall.ret[1].status = "pending"
       /\ lastCall.ret[1].dependencies = {}

\* planResearch has returned from a call whose response was not a task list.
C21_Witness ==
    /\ lastCall.fn = "planResearch"
    /\ lastCall.arg.kind = "malformed"
    /\ IdsOf(lastCall.ret) = {FALLBACK_ID}

\* --------------------------------------------------------------------- C22
\* The sources of the results, one result after the other.
RECURSIVE SourcesOf(_)
SourcesOf(results) ==
    IF Len(results) = 0
    THEN <<>>
    ELSE results[1].result.sources \o SourcesOf(Tail(results))

\* The entries the latest call collected before its filter, in the order
\* in which it pushed them.
Collected ==
    IF lastCall.fn = "extractSources"
    THEN LET web == SelectSeq(lastCall.arg.chunks, LAMBDA c : c.web)
         IN  [k \in DOMAIN web |->
                [title |-> IF web[k].title = "" THEN "Web Source" ELSE web[k].title,
                 url |-> IF web[k].uri = "" THEN "#" ELSE web[k].uri,
                 snippet |-> "",
                 source |-> IF web[k].uri = "" THEN "google.com" ELSE "a.org"]]
    ELSE SourcesOf(lastCall.arg)

\* The sources the latest call returned.
Returned ==
    IF lastCall.fn = "extractSources" THEN lastCall.ret ELSE lastCall.ret.sources

\* out holds, in the order of in, the first entry of every url of in.
FirstOfEachUrl(in, out) ==
    /\ {out[k].url : k \in DOMAIN out} = {in[i].url : i \in DOMAIN in}
    /\ \E f \in [DOMAIN out -> DOMAIN in] :
          /\ \A k, l \in DOMAIN out : k < l => f[k] < f[l]
          /\ \A k \in DOMAIN out :
                /\ out[k] = in[f[k]]
                /\ \A j \in 1..(f[k] - 1) : in[j].url # out[k].url

\* C22: the sources of an executor result (extractSources) and of the
\* synthesis result hold no two entries with the same url; of the entries
\* collected, the first of every url is kept, in the order collected.
C22_SourcesUniqueByUrl ==
    lastCall.fn \in {"extractSources", "synthesizeReport"}
    => /\ \A k, l \in DOMAIN Returned :
             k # l => Returned[k].url # Returned[l].url
       /\ FirstOfEachUrl(Collected, Returned)

\* Three chunks, the first and the last with the same uri and other titles:
\* two sources are returned, the first with the title of the first chunk.
C22_Witness ==
    /\ lastCall.fn = "extractSources"
    /\ Len(Collected) = 3
    /\ Collected[1].url = Collected[3].url
    /\ Collected[1].title # Collected[3].title
    /\ Collected[2].url # Collected[1].url
    /\ Len(Returned) = 2
    /\ Returned[1].title = Collected[1].title

\* --------------------------------------------------------------------- C23
\* Unresolved executor promises of run r.
Flying(r) ==
    Cardinality({p \in LaunchIds \X (1..MaxTasks) : p[2] <= inflight[r][p[1]]})

\* An invocation of processQueue of run r ends in this step without having
\* launched a task: the awaited one, one started by a completion and asleep
\* since, or the one the completion of this step has started.
InvocationEnds(r) ==
    \/ /\ hsePc[r] \in {"notStarted", "awaitProcessQueue"}
       /\ hsePc'[r] \in {"waitLoop", "awaitSynthesize"}
    \/ pqSpawned'[r] < pqSpawned[r]
    \/ /\ Flying(r)' < Flying(r)
       /\ pqSpawned'[r] = pqSpawned[r]

\* C23: an invocation of processQueue ends without a launch and without
\* the graph being finished only while at least one task is running; it
\* never ends while a slot is free and a task is eligible; and after the
\* step of a completion, a free slot and an eligible task mean that an
\* invocation of processQueue is asleep in its delay.
C23_StopsOnlyWhileRunning ==
    [][/\ \A r \in Runs :
             InvocationEnds(r)
             /\ Count(tasksRef', "pending") + Count(tasksRef', "running") > 0
             => /\ Count(tasksRef', "running") >= 1
                /\ ~(/\ Count(tasksRef', "running") < MAX_CONCURRENCY
                     /\ \E i \in DOMAIN tasksRef' : Eligible(tasksRef', i))
       /\ \A r \in Runs :
             /\ Flying(r)' < Flying(r) \/ pqSpawned'[r] > pqSpawned[r]
             /\ Count(tasksRef', "running") < MAX_CONCURRENCY
             /\ \E i \in DOMAIN tasksRef' : Eligible(tasksRef', i)
             => hsePc'[r] = "awaitProcessQueue" \/ pqSpawned'[r] > 0]_vars

\* --------------------------------------------------------------------- C24
\* No dependency id of the list names a task that is not in the list.
NoDangling(list) ==
    \A i \in DOMAIN list : list[i].dependencies \subseteq IdsOf(list)

\* The list without the task(s) of that id.
Without(list, id) == SelectSeq(list, LAMBDA t : t.id # id)

\* C24: handleDeleteTask(id) leaves the tasks with another id, in their
\* order, each with its fields as they were but for the dependency list,
\* from which id is gone; no task of the list has the id; and a list in
\* which no dependency id was dangling has none afterwards.
C24_DeleteRemovesTaskAndEdges ==
    [][lastCall'.fn = "handleDeleteTask"
       => LET id == lastCall'.arg.id
              kept == Without(tasksRef, id)
          IN  /\ id \notin IdsOf(tasksRef')
              /\ Len(tasksRef') = Len(kept)
              /\ \A k \in DOMAIN kept :
                    /\ [tasksRef'[k] EXCEPT !.dependencies = {}]
                         = [kept[k] EXCEPT !.dependencies = {}]
                    /\ tasksRef'[k].dependencies = kept[k].dependencies \ {id}
              /\ NoDangling(tasksRef) => NoDangling(tasksRef')]_vars

\* A task was deleted on which a later task of the list depended: that task
\* is still in the list, without the dependency.
C24_Witness ==
    /\ lastCall.fn = "handleDeleteTask"
    /\ lastCall.arg.id \notin IdsOf(tasksRef)
    /\ NoDangling(lastCall.arg.tasks)
    /\ \E i \in DOMAIN lastCall.arg.tasks, k \in DOMAIN tasksRef :
          /\ lastCall.arg.id \in lastCall.arg.tasks[i].dependencies
          /\ tasksRef[k].id = lastCall.arg.tasks[i].id
          /\ tasksRef[k].dependencies =
                lastCall.arg.tasks[i].dependencies \ {lastCall.arg.id}
    /\ Len(tasksRef) = Len(lastCall.arg.tasks) - 1

\* --------------------------------------------------------------------- C25
\* The planner call of run r settles in this step: handleSearch stores the
\* tasks and calls handleStartExecution, which runs up to its first delay.
PlannerSettles(r) == hsePc[r] = "planning" /\ hsePc'[r] # "planning"

\* C25: when handleSearch starts the scheduler, whatever the planner's
\* output carried, every task has priority normal and a defined dependency
\* list, the result Map of the run is empty, and every task is pending but
\* for the one the first pass of processQueue has set running and launched.
C25_FreshListAtStart ==
    [][\A r \in Runs :
          PlannerSettles(r)
          => /\ taskResultsMap'[r] = <<>>
             /\ Count(tasksRef', "running") <= 1
             /\ \A i \in DOMAIN tasksRef' :
                   /\ tasksRef'[i].priority = "normal"
                   /\ tasksRef'[i].dependencies \subseteq DepIds
                   /\ tasksRef'[i].status \in {"pending", "running"}
                   /\ tasksRef'[i].status = "running"
                      => inflight'[r][tasksRef'[i].id]
                            = inflight[r][tasksRef'[i].id] + 1]_vars

\* The scheduler of the second search of a session has just started on a
\* list of two tasks: the first is running, the second waits for it.
C25_Witness ==
    /\ hsePc[MaxRuns] = "awaitProcessQueue"
    /\ taskResultsMap[MaxRuns] = <<>>
    /\ Len(tasksRef) = 2
    /\ tasksRef[1].status = "running"
    /\ tasksRef[2].status = "pending"
    /\ tasksRef[2].dependencies = {tasksRef[1].id}

\* --------------------------------------------------------------------- C26
\* C26: within one run executeResearchTask is called for a task id only in
\* a step that takes that task from pending to running, and at most once
\* per id: an id that has been launched is never launched again.
C26_LaunchedAtMostOnce ==
    [][\A id \in TaskIds :
          inflight'[TheRun][id] > inflight[TheRun][id]
          => /\ inflight'[TheRun][id] = 1
             /\ id \notin DOMAIN contextOf[TheRun]
             /\ StatusOf(tasksRef, id) = "pending"
             /\ StatusOf(tasksRef', id) = "running"]_vars

\* Two tasks were launched and have completed while a third is running:
\* three launches, two of them by invocations that completions started.
C26_Witness ==
    /\ Len(tasksRef) = 3
    /\ Count(tasksRef, "completed") = 2
    /\ Count(tasksRef, "running") = 1
    /\ \A id \in IdsOf(tasksRef) : id \in DOMAIN contextOf[TheRun]

\* --------------------------------------------------------------------- C27
\* C27: the deadlock branch is not taken for an acyclic graph whose
\* dependency ids all name tasks of the list; when it is taken, no task is
\* running and no pending task can ever become eligible (each waits, directly
\* or through others, on a cycle or on an id that names no task).
C27_DeadlockOnlyWhenStuck ==
    warned =>
        /\ ~WellFormed(tasksRef)
        /\ Count(tasksRef, "running") = 0
        /\ Count(tasksRef, "pending") > 0
        /\ \A i \in DOMAIN tasksRef :
              tasksRef[i].status = "pending"
              => tasksRef[i].id \notin Completable(tasksRef, {})

\* The warning was logged after a task outside the cycle had completed.
C27_Witness ==
    /\ warned
    /\ Count(tasksRef, "completed") >= 1
    /\ Count(tasksRef, "pending") >= 2

\* --------------------------------------------------------------------- C28
\* C28: a task of the list becomes completed only in the step in which an
\* executor call resolves that the run owning the list launched for that
\* task id; and only the run that owns the list launches tasks: a call or
\* an invocation of processQueue left over from an abandoned run neither
\* completes nor launches a task of the list of a later search.
C28_OwnRunOnly ==
    [][\A id \in LaunchIds :
          /\ \A r \in Runs :
                inflight'[r][id] > inflight[r][id] => r = listOwner'
          /\ /\ listOwner' = listOwner
             /\ StatusOf(tasksRef, id) \in {"pending", "running"}
             /\ StatusOf(tasksRef', id) = "completed"
             => /\ listOwner \in Runs
                /\ inflight'[listOwner][id] < inflight[listOwner][id]]_vars

\* --------------------------------------------------------------------- C29
\* C29: in a run that no session operation interrupts every completed task
\* has an entry in the result Map; every block of every context string
\* carries the stored findings of its task, never the "No info" text; and
\* the results handed to the Synthesizer hold no "Failed" placeholder.
C29_CompletedHasResult ==
    /\ \A i \in DOMAIN tasksRef :
          tasksRef[i].status = "completed"
          => tasksRef[i].id \in DOMAIN taskResultsMap[TheRun]
    /\ \A id \in DOMAIN contextOf[TheRun] :
          \A k \in DOMAIN contextOf[TheRun][id] :
             /\ contextOf[TheRun][id][k].findings # "No info"
             /\ \E j \in DOMAIN tasksRef :
                   /\ tasksRef[j].title = contextOf[TheRun][id][k].title
                   /\ contextOf[TheRun][id][k].findings =
                         taskResultsMap[TheRun][tasksRef[j].id].text
    /\ \A k \in DOMAIN synthCall[TheRun].results :
          synthCall[TheRun].results[k].result # MISSING_RESULT

\* The Synthesizer was called with the results of three tasks, the last of
\* which had the blocks of the other two in its context.
C29_Witness ==
    /\ synthCall[TheRun].calls = 1
    /\ Len(synthCall[TheRun].results) = 3
    /\ \E id \in DOMAIN contextOf[TheRun] : Len(contextOf[TheRun][id]) = 2

\* --------------------------------------------------------------------- C30
\* C30: tasksRef.current and activeTasks hold the same tasks, with the
\* same fields, in the same order, after every step: status updates,
\* priority toggles, the replacement of the list by handleSearch, and its
\* clearing by New Research, a thread switch or a thread deletion.
C30_RefMirrorsState == tasksRef = activeTasks

\* Both copies in the second search of a session, after a launch, a
\* completion and a second launch: the same two tasks.
C30_Witness ==
    /\ tasksRef = activeTasks
    /\ Len(activeTasks) = 2
    /\ activeTasks[1].status = "completed"
    /\ activeTasks[2].status = "running"
    /\ searches = MaxRuns

====
